---- MODULE Spec2Model ----
(***************************************************************************)
(* Section 18 verification run of the Keithley 6430 scripts.               *)
(*                                                                         *)
(* The model follows run_verification.main() statement by statement: the   *)
(* try body (open, idn, reset, the six verify_* procedures, export), the   *)
(* two except clauses and the finally block with safe_shutdown().  Each    *)
(* verify_* procedure is written down as the sequence of statements of its *)
(* source text and run by one interpreter; the same procedures can be      *)
(* entered directly by a caller other than main() (caller = "direct").     *)
(*                                                                         *)
(* Numbers are exact fixed-point integers: volts in microvolts, low        *)
(* currents in units of 1e-16 A, resistances in units of 1e8 ohm.  The     *)
(* rounding of IEEE-754 doubles is not modelled.                           *)
(***************************************************************************)
EXTENDS Integers, Sequences, FiniteSets, TLC

VARIABLES
    caller,     \* "main": run_verification.main(); "direct": a verify_* function called on its own
    cfg,        \* [hasSrc, use5720, n, r5156]: the YAML configuration / ProcCfg / r5156_actual
    env,        \* how the instruments answer during the running procedure
    inst,       \* main's k, dmm, src: "None" | "open" | "closed"
    pc,         \* "main" | "proc" | "except" | "finally" | "shutdown" | "exit"
    mpc,        \* index of the statement of main's try body being executed
    proc,       \* the verify_* procedure being executed (0: none)
    ip,         \* index of the statement of the procedure being executed
    spc,        \* position inside _sample_readings: "idle" | "read" | "sleep"
    sxs,        \* _sample_readings' local xs
    xs,         \* the procedure's local xs (reference series)
    dut,        \* the procedure's local dut (DUT series)
    iset,       \* the procedure's local I_set
    presults,   \* the procedure's local results
    results,    \* main's local results
    exc,        \* the exception in flight or handled: "none" | "BusError" | ...
    outcome,    \* how the entered function ended: "running" | "returned" | "raised"
    exported,   \* the point-result CSV was written
    sd,         \* index of the step of safe_shutdown being executed (0: not entered)
    sdFailed,   \* the steps of safe_shutdown whose instrument call raised
    shutdowns,  \* number of times safe_shutdown was entered
    log,        \* every instrument command, operator prompt and wait, in order
    hist,       \* bookkeeping for the properties (never read by the actions)
    call        \* a function of procedures.common called on its own: [fn, arg, ret, done]

vars == <<caller, cfg, env, inst, pc, mpc, proc, ip, spc, sxs, xs, dut, iset,
          presults, results, exc, outcome, exported, sd, sdFailed, shutdowns,
          log, hist, call>>

-----------------------------------------------------------------------------
(* Bounds of the model *)

\* rows of each limit table that are run (the tables hold 4 or 6 rows)
NRows == 2
\* largest samples_per_point a configuration chooses
MaxSamples == 2

-----------------------------------------------------------------------------
(* Values *)

\* float("nan"): a value outside every table and reading
NaN == 0 - 2000000000

\* step of the reading errors: a multiple of every sample count the bounds
\* allow, so that the mean of a series is an exact integer
ErrStep == 6 * 10

\* the difference between successive readings of a noisy series, likewise
NoiseStep == 6 * 1

\* the error of a source that is far off its setpoint: 6 mV, beyond the
\* limits of the 200 mV and 2 V rows
OffErr == 100 * ErrStep

RECURSIVE Sum(_)
Sum(s) == IF s = <<>> THEN 0 ELSE Head(s) + Sum(Tail(s))

\* common.mean
mean(s) == IF s # <<>> THEN Sum(s) \div Len(s) ELSE NaN

\* common.within; every comparison with NaN is false
within_open(x, lo, hi) == x # NaN /\ lo # NaN /\ hi # NaN /\ x > lo /\ x < hi
within(x, lo, hi) == x # NaN /\ lo # NaN /\ hi # NaN /\ x >= lo /\ x <= hi

\* tables_section18.shift_limits: the limits keep their distances from the
\* centre, which moves from nominal to actual
shift_limits_unmoved(nominal, low, high, actual) == <<low, high>>
shift_limits_crossed(nominal, low, high, actual) ==
    <<actual + (high - nominal), actual - (nominal - low)>>

shift_limits(nominal, low, high, actual) ==
    LET d_lo == nominal - low
        d_hi == high - nominal
    IN  <<actual - d_lo, actual + d_hi>>

-----------------------------------------------------------------------------
(* Limit tables (tables_section18.py), the first four rows of each.        *)
(* Voltages in microvolts, mainframe currents in 1e-11 A.                  *)

Row(name, set, lo, hi, unit) ==
    [range_name |-> name, set_value |-> set, low |-> lo, high |-> hi, unit |-> unit]

TABLE_18_3_MAINFRAME_OUT_V ==
    << Row("200mV", 200000,    199360,    200640,    "V"),
       Row("2V",    2000000,   1999000,   2001000,   "V"),
       Row("20V",   20000000,  19993600,  20006400,  "V"),
       Row("200V",  200000000, 199936000, 200064000, "V") >>

TABLE_18_4_MAINFRAME_MEAS_V ==
    << Row("200mV", 200000,    199626,    200374,    "V"),
       Row("2V",    2000000,   1999410,   2000590,   "V"),
       Row("20V",   20000000,  19995500,  20004500,  "V"),
       Row("200V",  200000000, 199960000, 200040000, "V") >>

TABLE_18_5_MAINFRAME_OUT_I ==
    << Row("1uA",   100000,    99905,     100095,    "A"),
       Row("10uA",  1000000,   999470,    1000530,   "A"),
       Row("100uA", 10000000,  9994900,   10005100,  "A"),
       Row("1mA",   100000000, 99946000,  100054000, "A") >>

TABLE_18_6_MAINFRAME_MEAS_I ==
    << Row("1uA",   100000,    99920,     100080,    "A"),
       Row("10uA",  1000000,   999300,    1000700,   "A"),
       Row("100uA", 10000000,  9996900,   10003100,  "A"),
       Row("1mA",   100000000, 99967000,  100033000, "A") >>

(* Low-current tables: (range, R_nom, I_nom, lo_nom, hi_nom); currents in  *)
(* 1e-16 A, resistances in 1e8 ohm, hence voltages in 1e-8 V.              *)

LowRow(name, rnom, inom, lo, hi) ==
    [range_name |-> name, r_nom |-> rnom, set_value |-> inom, low |-> lo,
     high |-> hi, unit |-> "A"]

TABLE_18_11_PREAMP_OUT_I_LOW ==
    << LowRow("1pA",   1000, 10000,    9795,    10205),
       LowRow("10pA",  1000, 100000,   99150,   100085),
       LowRow("100pA", 100,  1000000,  997700,  1002300),
       LowRow("1nA",   10,   10000000, 9990000, 10010000) >>

TABLE_18_13_PREAMP_MEAS_I_LOW ==
    << LowRow("1pA",   1000, 10000,    9830,    10170),
       LowRow("10pA",  1000, 100000,   99430,   100570),
       LowRow("100pA", 100,  1000000,  998200,  1001800),
       LowRow("1nA",   10,   10000000, 9993000, 10007000) >>

\* the six procedures, numbered in the order main() calls them
Procs == 1..6

TestId(p) ==
    CASE p = 1 -> "MF_OUT_V"
      [] p = 2 -> "MF_MEAS_V"
      [] p = 3 -> "MF_OUT_I"
      [] p = 4 -> "MF_MEAS_I"
      [] p = 5 -> "PA_OUT_I_LOW"
      [] p = 6 -> "PA_MEAS_I_LOW"

\* the table each procedure iterates
TableOf(p) ==
    CASE p = 1 -> TABLE_18_3_MAINFRAME_OUT_V
      [] p = 2 -> TABLE_18_4_MAINFRAME_MEAS_V
      [] p = 3 -> TABLE_18_5_MAINFRAME_OUT_I
      [] p = 4 -> TABLE_18_6_MAINFRAME_MEAS_I
      [] p = 5 -> TABLE_18_11_PREAMP_OUT_I_LOW
      [] p = 6 -> TABLE_18_13_PREAMP_MEAS_I_LOW

LowCurrent(p) == p \in {5, 6}

\* the key of the resistor-actuals map for a nominal resistance
r_key_from_nominal(rnom) ==
    CASE rnom = 1    -> "100M"
      [] rnom = 10   -> "1G"
      [] rnom = 100  -> "10G"
      [] rnom = 1000 -> "100G"

\* the maps a run may be given as r5156_actual: none, or one characterised
\* resistor (99.8 Gohm for the 100G standard, 10.1 Gohm for the 10G standard)
NoMap == [key \in {} |-> 0]
R5156Maps == {NoMap, [key \in {"100G"} |-> 998], [key \in {"10G"} |-> 101]}

\* float((r5156_actual or {}).get(key, R_nom))
LookupR_nominal(map, rnom) == rnom

LookupR(map, rnom) ==
    LET key == r_key_from_nominal(rnom)
    IN  IF key \in DOMAIN map THEN map[key] ELSE rnom

-----------------------------------------------------------------------------
(* The verify_* procedures of section18.py as statement sequences.         *)
(* ext is "cfg.use_5720a_as_voltage_source and src is not None".           *)

\* the statements before the row loop
PreEnablesFirst(p, ext) == <<"out_on", "prompt">>

PreNoOperate(p, ext) ==
    CASE p \in {1, 2} -> <<"prompt", "out_on">>
      [] p = 3 -> <<"prompt", "dmm_dci_row", "out_on">>
      [] p = 4 -> <<"prompt", "dmm_dci_row", "out_on", "sense_curr">>
      [] p = 5 -> <<"prompt", "dmm_dcv_20", "out_on">>
      [] p = 6 -> <<"prompt", "dmm_dcv_20", "out_on", "sense_curr">>

Pre(p, ext) ==
    CASE p = 1 -> <<"prompt", "out_on">>
      [] p = 2 -> IF ext THEN <<"prompt", "out_on", "src_oper">>
                         ELSE <<"prompt", "out_on">>
      [] p = 3 -> <<"prompt", "dmm_dci_row", "out_on">>
      [] p = 4 -> <<"prompt", "dmm_dci_row", "out_on", "sense_curr">>
      [] p = 5 -> <<"prompt", "dmm_dcv_20", "out_on">>
      [] p = 6 -> <<"prompt", "dmm_dcv_20", "out_on", "sense_curr">>

\* the statements of one iteration of the row loop
BodyOwnSource(p, ext) ==
    <<"source_v", "sense_volt", "settle", "sample_ref", "sample_dut", "eval">>

BodyPromptsLast(p, ext) == <<"sample_ref", "row_prompt", "eval">>

BodySamplesUnsettled(p, ext) == <<"source_v", "sample_ref", "settle", "eval">>

Body(p, ext) ==
    CASE p = 1 -> <<"dmm_dcv_row", "source_v", "settle", "sample_ref", "eval">>
      [] p = 2 -> IF ext
                  THEN <<"src_out", "settle", "sample_ref", "sense_volt",
                         "sample_dut", "eval">>
                  ELSE <<"source_v", "sense_volt", "settle", "sample_ref",
                         "sample_dut", "eval">>
      [] p = 3 -> <<"source_i", "settle", "sample_ref", "eval">>
      [] p = 4 -> <<"source_i", "settle", "sample_ref", "sample_dut", "eval">>
      [] p = 5 -> <<"row_prompt", "source_i", "settle", "sample_ref",
                    "query_iset", "eval">>
      [] p = 6 -> <<"row_prompt", "sample_ref", "source_i_calc", "settle",
                    "query_iset", "sample_dut", "eval">>

\* the statements after the row loop, before "return results"
PostNoDisable(p, ext) ==
    CASE p = 2 -> IF ext THEN <<"src_stby">> ELSE <<>>
      [] OTHER -> <<>>

Post(p, ext) ==
    CASE p = 2 -> IF ext THEN <<"src_stby", "out_off">> ELSE <<"out_off">>
      [] p = 3 -> <<>>
      [] OTHER -> <<"out_off">>

RECURSIVE Rep(_, _)
Rep(s, n) == IF n = 0 THEN <<>> ELSE s \o Rep(s, n - 1)

\* the whole procedure, the row loop unrolled over the NRows rows that are run
Code(p, ext) == Pre(p, ext) \o Rep(Body(p, ext), NRows) \o Post(p, ext) \o <<"return">>

\* the table row statement i of the procedure works on (0 outside the loop)
RowAtFirst(p, ext, i) ==
    LET a == Len(Pre(p, ext))
        b == Len(Body(p, ext))
    IN  IF i > a /\ i <= a + b * NRows THEN 1 ELSE 0

RowAt(p, ext, i) ==
    LET a == Len(Pre(p, ext))
        b == Len(Body(p, ext))
    IN  IF i > a /\ i <= a + b * NRows THEN ((i - a - 1) \div b) + 1 ELSE 0

\* the instrument a statement talks to ("op": the operator, "time": a wait)
Dev(stmt) ==
    CASE stmt \in {"dmm_dcv_row", "dmm_dcv_20", "dmm_dci_row", "sample_ref"} -> "dmm"
      [] stmt \in {"src_oper", "src_stby", "src_out"} -> "src"
      [] stmt \in {"prompt", "row_prompt"} -> "op"
      [] stmt = "settle" -> "time"
      [] OTHER -> "k"

\* statements that are one driver call returning nothing
Commands == {"dmm_dcv_row", "dmm_dcv_20", "out_on", "out_off", "src_oper",
             "src_stby", "src_out", "sense_volt", "sense_curr", "source_v",
             "source_i", "source_i_calc"}

-----------------------------------------------------------------------------
(* The reference meter's configuration (drivers/hp3458a.py), voltages in uV *)

\* _map_dcv_range: the fixed range for a requested value, one of 0.120, 1.2,
\* 12, 120, 1050 V
map_dcv_range(v) ==
    IF v <= 120000 THEN 120000
    ELSE IF v <= 1200000 THEN 1200000
    ELSE IF v <= 12000000 THEN 12000000
    ELSE IF v <= 120000000 THEN 120000000
    ELSE 1050000000

\* the statements that configure the reference meter, and the function they select
DmmConfigs == {"dmm_dcv_row", "dmm_dcv_20", "dmm_dci_row"}
DmmFunction(stmt) == IF stmt = "dmm_dci_row" THEN "DCI" ELSE "DCV"

\* the range config_dcv selects: dmm.config_dcv(row.set_value, ...) in row r of
\* procedure p, dmm.config_dcv(20.0, ...) before the rows
DmmRange(stmt, p, r) ==
    IF stmt = "dmm_dcv_row" THEN map_dcv_range(TableOf(p)[r].set_value)
    ELSE map_dcv_range(20000000)

-----------------------------------------------------------------------------
(* The try body of run_verification.main() as a statement sequence.        *)

MainCodeExportsEarly(hasSrc) ==
    <<"open_k", "open_dmm">> \o (IF hasSrc THEN <<"open_src">> ELSE <<>>)
    \o <<"p1", "export", "p2", "p3", "p4", "p5", "p6", "export_standards">>

MainCode(hasSrc) ==
    <<"open_k", "open_dmm">> \o (IF hasSrc THEN <<"open_src">> ELSE <<>>)
    \o <<"idn_k", "idn_dmm">> \o (IF hasSrc THEN <<"idn_src">> ELSE <<>>)
    \o <<"reset_k", "reset_dmm">> \o (IF hasSrc THEN <<"reset_src">> ELSE <<>>)
    \o <<"p1", "p2", "p3", "p4", "p5", "p6", "export", "export_standards">>

\* the procedure a statement of main calls (0: none)
ProcOf(stmt) ==
    CASE stmt = "p1" -> 1 [] stmt = "p2" -> 2 [] stmt = "p3" -> 3
      [] stmt = "p4" -> 4 [] stmt = "p5" -> 5 [] stmt = "p6" -> 6
      [] OTHER -> 0

\* the instrument a statement of main talks to
MainDev(stmt) ==
    CASE stmt \in {"open_k", "idn_k", "reset_k"} -> "k"
      [] stmt \in {"open_dmm", "idn_dmm", "reset_dmm"} -> "dmm"
      [] stmt \in {"open_src", "idn_src", "reset_src"} -> "src"
      [] OTHER -> "file"

\* statements of main whose driver call swallows every Exception itself:
\* HP3458A.idn, Fluke5720A.idn, Fluke5720A.reset
Swallowing == {"idn_dmm", "idn_src", "reset_src"}

\* safe_shutdown: the guarded calls in the order of its source text
SdPlanClosesFirst ==
    << <<"dmm", "close">>, <<"src", "close">>, <<"k", "close">>,
       <<"k", "out_off">>, <<"src", "stby">> >>

SdPlan ==
    << <<"k", "out_off">>, <<"src", "stby">>,
       <<"dmm", "close">>, <<"src", "close">>, <<"k", "close">> >>

-----------------------------------------------------------------------------
(* Statistics and the point evaluation *)

RECURSIVE SumSq(_, _)
SumSq(s, m) == IF s = <<>> THEN 0 ELSE (Head(s) - m) * (Head(s) - m) + SumSq(Tail(s), m)

RECURSIVE Bisect(_, _, _)
\* the r with r * r <= v < (r + 1) * (r + 1), given lo * lo <= v < hi * hi
Bisect(v, lo, hi) ==
    IF hi - lo <= 1 THEN lo
    ELSE LET mid == (lo + hi) \div 2
         IN  IF mid * mid <= v THEN Bisect(v, mid, hi) ELSE Bisect(v, lo, mid)

\* math.sqrt, rounded down to the fixed-point step
Isqrt(v) == Bisect(v, 0, 46340)

\* common.stdev, the square root rounded down to the fixed-point step
stdev(s) ==
    IF Len(s) < 2 THEN 0
    ELSE LET m == mean(s) IN Isqrt(SumSq(s, m) \div (Len(s) - 1))

\* the resistance a low-current row computes with
RowR(map, row) == LookupR(map, row.r_nom)

\* I_calc = V / R
ICalc(series, r) == mean(series) \div r

\* the fallback of "try: I_set = k.source_i_query() except Exception: ..."
ISetDefault(p, row, series, r) == IF p = 5 THEN row.set_value ELSE ICalc(series, r)

\* the centre the limits of a row are shifted to
CentreOnReference(p, series, setpoint) == mean(series)
Centre(p, series, setpoint) == IF LowCurrent(p) THEN setpoint ELSE mean(series)

\* the value compared against the shifted limits
ComparedReference(p, series, dseries, r) == mean(series)
Compared(p, series, dseries, r) ==
    CASE p \in {1, 3} -> mean(series)
      [] p \in {2, 4, 6} -> mean(dseries)
      [] p = 5 -> ICalc(series, r)

\* the default None of the traceability fields of a PointResult
None == NaN - 1

\* the procedure samples the DUT and records dut_mean=mean(dut),
\* dut_stdev=stdev(dut), not float("nan")
SamplesDutNever(p) == FALSE
SamplesDut(p) == p \in {2, 4, 6}

\* the PointResult a procedure appends for a row
PointResult(p, map, row, series, dseries, setpoint) ==
    LET r      == IF LowCurrent(p) THEN RowR(map, row) ELSE 0
        actual == Centre(p, series, setpoint)
        lh     == shift_limits(row.set_value, row.low, row.high, actual)
        x      == Compared(p, series, dseries, r)
    IN  [ test       |-> TestId(p),
          range_name |-> row.range_name,
          set_value  |-> row.set_value,
          actual_set |-> actual,
          dmm_mean   |-> IF p = 5 THEN ICalc(series, r) ELSE mean(series),
          dmm_stdev  |-> IF p = 5 THEN 0 ELSE stdev(series),
          dut_mean   |-> IF SamplesDut(p) THEN mean(dseries) ELSE NaN,
          dut_stdev  |-> IF SamplesDut(p) THEN stdev(dseries) ELSE NaN,
          low        |-> lh[1],
          high       |-> lh[2],
          unit       |-> row.unit,
          pass_fail  |-> IF within(x, lh[1], lh[2]) THEN "PASS" ELSE "FAIL",
          r_key      |-> IF LowCurrent(p) THEN r_key_from_nominal(row.r_nom) ELSE "None",
          r_nom_ohm  |-> IF LowCurrent(p) THEN row.r_nom ELSE None,
          r_act_ohm  |-> IF LowCurrent(p) THEN r ELSE None ]

-----------------------------------------------------------------------------
(* The arithmetic of Python floats in mean and stdev: binary floating point  *)
(* with round-to-nearest-even, at FloatBits bits of mantissa instead of the  *)
(* 53 of an IEEE-754 double.  Values are whole numbers of a unit small       *)
(* enough that every rounded sum and mean is again a whole number.           *)

\* bits of mantissa
FloatBits == 4

RECURSIVE Pow2(_)
Pow2(k) == IF k = 0 THEN 1 ELSE 2 * Pow2(k - 1)

RECURSIVE BitLen(_)
BitLen(v) == IF v = 0 THEN 0 ELSE 1 + BitLen(v \div 2)

\* a / b rounded to the nearest multiple of u, ties to the even multiple
RoundQuot(a, b, u) ==
    LET d == b * u
        q == a \div d
        r == a % d
    IN  u * (IF 2 * r > d \/ (2 * r = d /\ q % 2 = 1) THEN q + 1 ELSE q)

\* the float result of a / b for a >= 0, b > 0: FloatBits significant bits
float_div(a, b) ==
    LET k == BitLen(a \div b)
    IN  RoundQuot(a, b, Pow2(IF k > FloatBits THEN k - FloatBits ELSE 0))

\* the float result of a + b
float_add(a, b) == float_div(a + b, 1)

\* sum(xs): the samples are added from left to right, every partial sum rounded
RECURSIVE float_sum(_, _)
float_sum(acc, s) == IF s = <<>> THEN acc ELSE float_sum(float_add(acc, Head(s)), Tail(s))

\* common.mean in float arithmetic
float_mean(s) == IF s # <<>> THEN float_div(float_sum(0, s), Len(s)) ELSE NaN

\* common.stdev in float arithmetic; x - m is exact for the samples and their
\* mean, and the root is rounded down
float_stdev_undefined_if_short(s) ==
    IF Len(s) < 2 THEN NaN
    ELSE LET m == float_mean(s) IN Isqrt(SumSq(s, m) \div (Len(s) - 1))

float_stdev(s) ==
    IF Len(s) < 2 THEN 0
    ELSE LET m == float_mean(s) IN Isqrt(SumSq(s, m) \div (Len(s) - 1))

-----------------------------------------------------------------------------
(* What the instruments answer *)

\* an error beyond the upper limit of the row, in whole error steps
BigErr(row) == ((row.high - row.set_value) \div ErrStep + 1) * ErrStep

\* The instruments of one procedure call: the reference meter's and the DUT's
\* error, whether successive readings of a series differ, and how far the
\* setpoint the DUT reports is from the commanded one
NoEnv == [refErr |-> 0, dutErr |-> "none", noisy |-> FALSE, drift |-> 0]

Envs(p) ==
    [refErr : IF p \in {1, 3} THEN {0, ErrStep, OffErr} ELSE {0, ErrStep},
     dutErr : IF p \in {2, 4, 6} THEN {"none", "edge", "off"} ELSE {"none"},
     noisy  : BOOLEAN,
     drift  : IF LowCurrent(p) THEN {0, ErrStep} ELSE {0}]

\* the noise of reading number i (from 0) of a series
Noise(e, i) == IF e.noisy /\ i % 2 = 1 THEN NoiseStep ELSE 0

\* dmm.read(): reading number i of the reference meter for a row
RefReading(p, map, row, e, i) ==
    IF LowCurrent(p)
    THEN RowR(map, row) * (row.set_value + e.refErr + Noise(e, i))
    ELSE row.set_value + e.refErr + Noise(e, i)

\* the error of the DUT's readings of a row, relative to the centre its limits
\* are shifted to: none, exactly the distance of the upper limit, or beyond it
DutErr(p, row, e) ==
    IF e.dutErr = "none" THEN 0
    ELSE (IF LowCurrent(p) THEN 0 ELSE e.refErr)
         + (IF e.dutErr = "edge" THEN row.high - row.set_value ELSE BigErr(row))

\* k.read(): reading number i of the DUT for a row
DutReading(p, row, setpoint, e, i) ==
    (IF LowCurrent(p) THEN setpoint ELSE row.set_value)
    + DutErr(p, row, e) + Noise(e, i)

\* k.source_i_query(): the setpoint the DUT reports for a commanded current
SetpointAnswer(cmd, e) == cmd + e.drift

-----------------------------------------------------------------------------
(* State *)

Insts == {"k", "dmm", "src"}

Configs == [hasSrc : BOOLEAN, use5720 : BOOLEAN, n : 1..MaxSamples, r5156 : R5156Maps]

\* what a direct call of procedure p is given: only verify_mainframe_measure_voltage
\* takes src, only the low-current procedures take r5156_actual
DirectConfigs(p) ==
    {c \in Configs : /\ (p # 2 => ~c.hasSrc)
                     /\ (~LowCurrent(p) => c.r5156 = NoMap)}

\* no function of procedures.common is called on its own
NoCall == [fn |-> "none", arg |-> <<>>, ret |-> 0, done |-> FALSE]

NoHist == [ops |-> <<>>, acq |-> <<>>, sret |-> <<>>, sstate |-> "idle",
           cause |-> "none", atProc |-> 0, atRow |-> 0, atStmt |-> "none",
           atResults |-> 0, atMainResults |-> 0, done |-> <<>>]

Init ==
    /\ caller \in {"main", "direct"}
    /\ IF caller = "main"
       THEN /\ cfg \in Configs
            /\ env = NoEnv
            /\ inst = [i \in Insts |-> "None"]
            /\ pc = "main"
            /\ mpc = 1
            /\ proc = 0
            /\ ip = 0
       ELSE /\ proc \in Procs
            /\ cfg \in DirectConfigs(proc)
            /\ env \in Envs(proc)
            /\ inst = [i \in Insts |-> IF i = "src" /\ ~cfg.hasSrc THEN "None" ELSE "open"]
            /\ pc = "proc"
            /\ mpc = 0
            /\ ip = 1
    /\ spc = "idle"
    /\ sxs = <<>>
    /\ xs = <<>>
    /\ dut = <<>>
    /\ iset = NaN
    /\ presults = <<>>
    /\ results = <<>>
    /\ exc = "none"
    /\ outcome = "running"
    /\ exported = FALSE
    /\ sd = 0
    /\ sdFailed = {}
    /\ shutdowns = 0
    /\ log = <<>>
    /\ hist = NoHist
    /\ call = NoCall

\* "cfg.use_5720a_as_voltage_source and src is not None"
Ext == cfg.use5720 /\ inst["src"] # "None"

\* the statement of main's try body at mpc
MainStmt == MainCode(cfg.hasSrc)[mpc]

\* the statement of the running procedure at ip, its row index and its row
Stmt == Code(proc, Ext)[ip]
CurRow == RowAt(proc, Ext, ip)
TheRow == TableOf(proc)[CurRow]

Ev(w, d, c, ok) == [w |-> w, d |-> d, c |-> c, p |-> proc,
                    r |-> IF pc = "proc" THEN CurRow ELSE 0, ok |-> ok]

InMain == pc = "main" /\ mpc <= Len(MainCode(cfg.hasSrc))
InProc == pc = "proc"

\* the frame of the running procedure and of _sample_readings is left
DropFrames ==
    /\ env' = NoEnv
    /\ proc' = 0
    /\ ip' = 0
    /\ spc' = "idle"
    /\ sxs' = <<>>
    /\ xs' = <<>>
    /\ dut' = <<>>
    /\ iset' = NaN
    /\ presults' = <<>>

\* exception e leaves the try body of main(), or the procedure called directly
Raise(e) ==
    /\ exc' = e
    /\ hist' = [hist EXCEPT !.cause = e,
                            !.atProc = proc,
                            !.atRow = IF pc = "proc" THEN CurRow ELSE 0,
                            !.atStmt = IF pc = "proc" THEN Stmt ELSE MainStmt,
                            !.atResults = Len(presults),
                            !.atMainResults = Len(results),
                            !.acq = <<>>,
                            !.sret = <<>>,
                            !.ops = IF spc = "idle" THEN <<>>
                                    ELSE IF e = "KeyboardInterrupt" THEN @
                                    ELSE Append(@, "x"),
                            !.sstate = IF spc = "idle" THEN "idle"
                                       ELSE IF e = "KeyboardInterrupt" THEN "interrupted"
                                       ELSE "raised"]
    /\ DropFrames
    /\ results' = <<>>
    /\ IF caller = "main"
       THEN pc' = "except" /\ outcome' = outcome
       ELSE pc' = "exit" /\ outcome' = "raised"

-----------------------------------------------------------------------------
(* main(): the try body *)

\* a statement of main other than a procedure call runs to its end
MainStep ==
    /\ InMain
    /\ ProcOf(MainStmt) = 0
    /\ LET d == MainDev(MainStmt) IN
       /\ inst' = IF MainStmt \in {"open_k", "open_dmm", "open_src"}
                  THEN [inst EXCEPT ![d] = "open"] ELSE inst
       /\ exported' = IF MainStmt = "export" THEN TRUE ELSE exported
       /\ log' = Append(log, Ev("main", d, MainStmt, TRUE))
    /\ mpc' = mpc + 1
    /\ UNCHANGED <<call, caller, cfg, env, pc, proc, ip, spc, sxs, xs, dut, iset, presults,
                   results, exc, outcome, sd, sdFailed, shutdowns, hist>>

\* main calls verify_*: "results += verify_...(...)" begins
ProcCall ==
    /\ InMain
    /\ ProcOf(MainStmt) # 0
    /\ pc' = "proc"
    /\ proc' = ProcOf(MainStmt)
    /\ ip' = 1
    /\ presults' = <<>>
    /\ env' \in Envs(ProcOf(MainStmt))
    /\ UNCHANGED <<call, caller, cfg, inst, mpc, spc, sxs, xs, dut, iset, results, exc,
                   outcome, exported, sd, sdFailed, shutdowns, log, hist>>

\* "return results": to main, which appends them, or to the direct caller;
\* the series of the last row are dead from here on
ProcReturn ==
    /\ InProc
    /\ Stmt = "return"
    /\ hist' = [hist EXCEPT !.done = Append(@, proc)]
    /\ IF caller = "main"
       THEN /\ results' = results \o presults
            /\ pc' = "main"
            /\ mpc' = mpc + 1
            /\ DropFrames
            /\ outcome' = outcome
       ELSE /\ pc' = "exit"
            /\ outcome' = "returned"
            /\ UNCHANGED <<results, mpc, env, proc, ip, spc, sxs, xs, dut, iset, presults>>
    /\ UNCHANGED <<call, caller, cfg, inst, exc, exported, sd, sdFailed, shutdowns, log>>

-----------------------------------------------------------------------------
(* verify_*: the statements of a procedure *)

Advance == ip' = ip + 1

\* prompt(msg): the operator presses Enter
Prompt ==
    /\ InProc
    /\ Stmt \in {"prompt", "row_prompt"}
    /\ log' = Append(log, Ev("proc", "op", Stmt, TRUE))
    /\ Advance
    /\ UNCHANGED <<call, caller, cfg, env, inst, pc, mpc, proc, spc, sxs, xs, dut, iset,
                   presults, results, exc, outcome, exported, sd, sdFailed,
                   shutdowns, hist>>

\* a driver call that configures an instrument returns
Command ==
    /\ InProc
    /\ Stmt \in Commands
    /\ log' = Append(log, Ev("proc", Dev(Stmt), Stmt, TRUE))
    /\ Advance
    /\ UNCHANGED <<call, caller, cfg, env, inst, pc, mpc, proc, spc, sxs, xs, dut, iset,
                   presults, results, exc, outcome, exported, sd, sdFailed,
                   shutdowns, hist>>

\* "dmm.config_dci(row.set_value, ...)" before the loop that binds row:
\* evaluating the argument raises UnboundLocalError, nothing is sent
UnboundRow ==
    /\ InProc
    /\ Stmt = "dmm_dci_row"
    /\ Raise("UnboundLocalError")
    /\ UNCHANGED <<call, caller, cfg, inst, mpc, exported, sd, sdFailed, shutdowns, log>>

\* time.sleep(cfg.settle_s)
Settle ==
    /\ InProc
    /\ Stmt = "settle"
    /\ log' = Append(log, Ev("proc", "time", "settle", TRUE))
    /\ Advance
    /\ UNCHANGED <<call, caller, cfg, env, inst, pc, mpc, proc, spc, sxs, xs, dut, iset,
                   presults, results, exc, outcome, exported, sd, sdFailed,
                   shutdowns, hist>>

\* the resistance and the commanded current of the row of a low-current procedure
CurR == RowR(cfg.r5156, TheRow)
Commanded == IF proc = 5 THEN TheRow.set_value ELSE ICalc(xs, CurR)

\* what read_fn returns at the current "sample_*" statement
Reading ==
    IF Stmt = "sample_ref"
    THEN RefReading(proc, cfg.r5156, TheRow, env, Len(sxs))
    ELSE DutReading(proc, TheRow, iset, env, Len(sxs))

\* _sample_readings(read_fn, n, delay_s) is entered: xs=[]
SampleCall ==
    /\ InProc
    /\ Stmt \in {"sample_ref", "sample_dut"}
    /\ spc = "idle"
    /\ spc' = "read"
    /\ sxs' = <<>>
    /\ hist' = [hist EXCEPT !.ops = <<>>, !.acq = <<>>, !.sret = <<>>, !.sstate = "in"]
    /\ UNCHANGED <<call, caller, cfg, env, inst, pc, mpc, proc, ip, xs, dut, iset, presults,
                   results, exc, outcome, exported, sd, sdFailed, shutdowns, log>>

\* the loop "for _ in range(n)" has iterations left
SampleMore(done, n) == done < n

\* the statement after "xs.append(float(read_fn()))": time.sleep(delay_s),
\* in every iteration
AfterReadSkipLast(done, n) == IF done < n THEN "sleep" ELSE "read"
AfterRead(done, n) == "sleep"

\* where the value read goes in xs
SampleStoreFront(series, v) == <<v>> \o series
SampleStore(series, v) == Append(series, v)

\* xs.append(float(read_fn()))
SampleRead ==
    /\ InProc
    /\ spc = "read"
    /\ SampleMore(Len(sxs), cfg.n)
    /\ sxs' = SampleStore(sxs, Reading)
    /\ hist' = [hist EXCEPT !.ops = Append(@, "r"), !.acq = Append(@, Reading)]
    /\ spc' = AfterRead(Len(sxs) + 1, cfg.n)
    /\ log' = Append(log, Ev("proc", Dev(Stmt), "read", TRUE))
    /\ UNCHANGED <<call, caller, cfg, env, inst, pc, mpc, proc, ip, xs, dut, iset, presults,
                   results, exc, outcome, exported, sd, sdFailed, shutdowns>>

\* time.sleep(delay_s), the last statement of the loop body
SampleSleep ==
    /\ InProc
    /\ spc = "sleep"
    /\ spc' = "read"
    /\ hist' = [hist EXCEPT !.ops = Append(@, "w")]
    /\ log' = Append(log, Ev("proc", "time", "sample_delay", TRUE))
    /\ UNCHANGED <<call, caller, cfg, env, inst, pc, mpc, proc, ip, sxs, xs, dut, iset,
                   presults, results, exc, outcome, exported, sd, sdFailed,
                   shutdowns>>

\* "return xs": the series is bound to the procedure's xs or dut
SampleReturn ==
    /\ InProc
    /\ spc = "read"
    /\ ~SampleMore(Len(sxs), cfg.n)
    /\ IF Stmt = "sample_ref"
       THEN xs' = sxs /\ dut' = dut
       ELSE dut' = sxs /\ xs' = xs
    /\ hist' = [hist EXCEPT !.sret = sxs, !.sstate = "returned"]
    /\ spc' = "idle"
    /\ sxs' = <<>>
    /\ Advance
    /\ UNCHANGED <<call, caller, cfg, env, inst, pc, mpc, proc, iset, presults, results, exc,
                   outcome, exported, sd, sdFailed, shutdowns, log>>

\* "I_set = k.source_i_query()" returns
QuerySetpoint ==
    /\ InProc
    /\ Stmt = "query_iset"
    /\ iset' = SetpointAnswer(Commanded, env)
    /\ log' = Append(log, Ev("proc", "k", "query_iset", TRUE))
    /\ Advance
    /\ UNCHANGED <<call, caller, cfg, env, inst, pc, mpc, proc, spc, sxs, xs, dut, presults,
                   results, exc, outcome, exported, sd, sdFailed, shutdowns, hist>>

\* the statements whose Exception the procedure itself catches
CaughtAlsoReads == {"query_iset", "sample_ref", "sample_dut"}
Caught == {"query_iset"}

\* k.source_i_query() raises an Exception: "except Exception: I_set = ..."
QueryFault ==
    /\ InProc
    /\ Stmt \in Caught
    /\ spc \in {"idle", "read"}
    /\ iset' = IF Stmt = "query_iset" THEN ISetDefault(proc, TheRow, xs, CurR) ELSE iset
    /\ log' = Append(log, Ev("proc", Dev(Stmt), Stmt, FALSE))
    /\ spc' = "idle"
    /\ sxs' = <<>>
    /\ Advance
    /\ UNCHANGED <<call, caller, cfg, env, inst, pc, mpc, proc, xs, dut, presults, results,
                   exc, outcome, exported, sd, sdFailed, shutdowns, hist>>

\* the verdict of the row: results.append(PointResult(...))
Evaluate ==
    /\ InProc
    /\ Stmt = "eval"
    /\ presults' = Append(presults,
                          PointResult(proc, cfg.r5156, TheRow, xs, dut, iset))
    /\ xs' = <<>>
    /\ dut' = <<>>
    /\ iset' = NaN
    /\ Advance
    /\ UNCHANGED <<call, caller, cfg, env, inst, pc, mpc, proc, spc, sxs, results, exc,
                   outcome, exported, sd, sdFailed, shutdowns, log, hist>>

-----------------------------------------------------------------------------
(* The text the reference meter answers and _parse_first_float             *)
(* (drivers/hp3458a.py).  A response is a sequence of characters: the      *)
(* digit "1", the signs, the point, the exponent mark and a letter.        *)

Chars == {"1", "-", "+", ".", "E", "V"}

\* the longest response
MaxResponse == 3

Responses == UNION {[1..n -> Chars] : n \in 0..MaxResponse}

IsDigit(c) == c = "1"

\* [-+]?\d+ matches at position i of s
TokenStartsAt(s, i) ==
    \/ IsDigit(s[i])
    \/ s[i] \in {"-", "+"} /\ i < Len(s) /\ IsDigit(s[i + 1])

\* the last position of the digits from position i on (i - 1 if there are none)
RECURSIVE DigitsEnd(_, _)
DigitsEnd(s, i) ==
    IF i <= Len(s) /\ IsDigit(s[i]) THEN DigitsEnd(s, i + 1) ELSE i - 1

\* the last position of the match of _NUM_RE that starts at position i
TokenEnd(s, i) ==
    LET a == DigitsEnd(s, IF IsDigit(s[i]) THEN i ELSE i + 1)
        b == IF a < Len(s) /\ s[a + 1] = "." THEN DigitsEnd(s, a + 2) ELSE a
        c == IF b < Len(s) /\ s[b + 1] = "E"
             THEN (IF b + 1 < Len(s) /\ s[b + 2] \in {"-", "+"}
                   THEN b + 3 ELSE b + 2)
             ELSE 0
    IN  IF c # 0 /\ DigitsEnd(s, c) >= c THEN DigitsEnd(s, c) ELSE b

\* _parse_first_float: the first match of _NUM_RE, or ValueError without one
parse_first_float_or_zero(s) ==
    LET starts == {i \in DOMAIN s : TokenStartsAt(s, i)}
    IN  IF starts = {} THEN [raises |-> "none", token |-> <<"1">>]
        ELSE LET i == CHOOSE k \in starts : \A l \in starts : k <= l
             IN  [raises |-> "none", token |-> SubSeq(s, i, TokenEnd(s, i))]

parse_first_float(s) ==
    LET starts == {i \in DOMAIN s : TokenStartsAt(s, i)}
    IN  IF starts = {} THEN [raises |-> "ValueError", token |-> <<>>]
        ELSE LET i == CHOOSE k \in starts : \A l \in starts : k <= l
             IN  [raises |-> "none", token |-> SubSeq(s, i, TokenEnd(s, i))]

\* what HP3458A.get_reading can raise while it parses a response
ParseFaults == {parse_first_float(s).raises : s \in Responses} \ {"none"}

-----------------------------------------------------------------------------
(* Faults and the operator's interrupt *)

\* the Exceptions a failing statement raises: the VISA error of the bus, the
\* ValueError of a reading that does not parse (_parse_first_float, float()),
\* the OSError of a file that cannot be written
FaultKinds(stmt) ==
    CASE stmt \in {"export", "export_standards"} -> {"OSError"}
      [] stmt = "sample_ref" -> {"BusError"} \cup ParseFaults
      [] stmt = "sample_dut" -> {"BusError", "ValueError"}
      [] OTHER -> {"BusError"}

\* the running statement is a call that can raise an Exception to its caller
CanFault ==
    \/ /\ InMain
       /\ ProcOf(MainStmt) = 0
       /\ MainStmt \notin Swallowing
    \/ /\ InProc
       /\ Stmt \notin Caught
       /\ \/ Stmt \in Commands
          \/ Stmt \in {"sample_ref", "sample_dut"} /\ spc = "read"
                /\ SampleMore(Len(sxs), cfg.n)

\* an instrument call (or the export) raises: the bus is down, the answer is
\* malformed or times out, the file cannot be written
BusFault ==
    /\ CanFault
    /\ LET stmt == IF pc = "proc" THEN Stmt ELSE MainStmt
           d    == IF pc = "proc" THEN Dev(Stmt) ELSE MainDev(MainStmt)
       IN  /\ \E e \in FaultKinds(stmt) : Raise(e)
           /\ log' = Append(log, Ev(pc, d, IF spc = "read" THEN "read" ELSE stmt, FALSE))
    /\ UNCHANGED <<call, caller, cfg, inst, mpc, exported, sd, sdFailed, shutdowns>>

\* Ctrl+C while the try body (or the procedure called directly) runs
Interrupt ==
    /\ InMain \/ InProc
    /\ Raise("KeyboardInterrupt")
    /\ UNCHANGED <<call, caller, cfg, inst, mpc, exported, sd, sdFailed, shutdowns, log>>

-----------------------------------------------------------------------------
(* main(): the except clauses and the finally block *)

\* what is still in flight after the except clause that matches e
HandledSwallowAll(e) == "none"
Handled(e) == IF e = "KeyboardInterrupt" THEN "none" ELSE e

\* "except KeyboardInterrupt:" prints and falls through
ExceptKeyboardInterrupt ==
    /\ pc = "except"
    /\ exc = "KeyboardInterrupt"
    /\ exc' = Handled(exc)
    /\ pc' = "finally"
    /\ UNCHANGED <<call, caller, cfg, env, inst, mpc, proc, ip, spc, sxs, xs, dut, iset,
                   presults, results, outcome, exported, sd, sdFailed, shutdowns,
                   log, hist>>

\* "except Exception as e:" prints and re-raises
ExceptException ==
    /\ pc = "except"
    /\ exc # "KeyboardInterrupt"
    /\ exc' = Handled(exc)
    /\ pc' = "finally"
    /\ UNCHANGED <<call, caller, cfg, env, inst, mpc, proc, ip, spc, sxs, xs, dut, iset,
                   presults, results, outcome, exported, sd, sdFailed, shutdowns,
                   log, hist>>

\* how often the finally block calls safe_shutdown
ShutdownCallsTwice == 1 + 1
ShutdownCalls == 1

\* "finally: safe_shutdown(k, dmm, src)" is entered, from the end of the try
\* body or from an except clause
Finally ==
    /\ \/ pc = "finally"
       \/ pc = "main" /\ mpc > Len(MainCode(cfg.hasSrc))
    /\ pc' = "shutdown"
    /\ sd' = 1
    /\ shutdowns' = shutdowns + ShutdownCalls
    /\ UNCHANGED <<call, caller, cfg, env, inst, mpc, proc, ip, spc, sxs, xs, dut, iset,
                   presults, results, exc, outcome, exported, sdFailed, log, hist>>

-----------------------------------------------------------------------------
(* safe_shutdown(k, dmm, src) *)

SdStep == SdPlan[sd]

\* the step after one whose call failed or not: every call is wrapped in its
\* own try/except Exception
SdAfterStopOnFailure(step, ok) == IF ok THEN step + 1 ELSE Len(SdPlan) + 1
SdAfter(step, ok) == step + 1

\* k.output(False) / src.standby(), skipped when the instrument is None
SdSafe ==
    /\ pc = "shutdown"
    /\ sd <= Len(SdPlan)
    /\ SdStep[2] # "close"
    /\ IF inst[SdStep[1]] = "None"
       THEN /\ sd' = sd + 1
            /\ UNCHANGED <<log, sdFailed>>
       ELSE \E ok \in BOOLEAN :
              /\ log' = Append(log, Ev("shutdown", SdStep[1], SdStep[2], ok))
              /\ sdFailed' = IF ok THEN sdFailed ELSE sdFailed \cup {sd}
              /\ sd' = SdAfter(sd, ok)
    /\ UNCHANGED <<call, caller, cfg, env, inst, pc, mpc, proc, ip, spc, sxs, xs, dut, iset,
                   presults, results, exc, outcome, exported, shutdowns, hist>>

\* inst.close() for dmm, src, k, skipped when the instrument is None; the
\* driver's close swallows the error of the VISA close
SdClose ==
    /\ pc = "shutdown"
    /\ sd <= Len(SdPlan)
    /\ SdStep[2] = "close"
    /\ IF inst[SdStep[1]] = "None"
       THEN /\ sd' = sd + 1
            /\ UNCHANGED <<log, sdFailed, inst>>
       ELSE \E ok \in BOOLEAN :
              /\ log' = Append(log, Ev("shutdown", SdStep[1], "close", ok))
              /\ sdFailed' = IF ok THEN sdFailed ELSE sdFailed \cup {sd}
              /\ inst' = IF ok THEN [inst EXCEPT ![SdStep[1]] = "closed"] ELSE inst
              /\ sd' = SdAfter(sd, ok)
    /\ UNCHANGED <<call, caller, cfg, env, pc, mpc, proc, ip, spc, sxs, xs, dut, iset,
                   presults, results, exc, outcome, exported, shutdowns, hist>>

\* safe_shutdown returns and main() ends: it returns, or the exception that
\* is still in flight leaves it
SdReturn ==
    /\ pc = "shutdown"
    /\ sd > Len(SdPlan)
    /\ pc' = "exit"
    /\ outcome' = IF exc = "none" THEN "returned" ELSE "raised"
    /\ UNCHANGED <<call, caller, cfg, env, inst, mpc, proc, ip, spc, sxs, xs, dut, iset,
                   presults, results, exc, exported, sd, sdFailed, shutdowns,
                   log, hist>>

-----------------------------------------------------------------------------

Next ==
    \/ MainStep
    \/ ProcCall
    \/ ProcReturn
    \/ Prompt
    \/ Command
    \/ UnboundRow
    \/ Settle
    \/ SampleCall
    \/ SampleRead
    \/ SampleSleep
    \/ SampleReturn
    \/ QuerySetpoint
    \/ QueryFault
    \/ Evaluate
    \/ BusFault
    \/ Interrupt
    \/ ExceptKeyboardInterrupt
    \/ ExceptException
    \/ Finally
    \/ SdSafe
    \/ SdClose
    \/ SdReturn

Spec == Init /\ [][Next]_vars

-----------------------------------------------------------------------------
(* mean and stdev of procedures.common called on their own, on series of    *)
(* floats                                                                  *)

\* zero and the floats of one binade, in units of a quarter of the step
\* between them
FloatVals == {0} \cup {4 * m : m \in Pow2(FloatBits - 1)..(Pow2(FloatBits) - 1)}

\* the series: every sequence of at most MaxSamples + 1 floats
FloatSeqs == UNION {[1..k -> FloatVals] : k \in 0..(MaxSamples + 1)}

\* the series a row of verify_mainframe_measure_voltage is evaluated on: three
\* reference readings around 0.19963 V and one or two readings of the DUT, in uV
RefSeries == [1..3 -> {199620, 199630, 199640}]
DutSeries == UNION {[1..n -> {199255, 199256, 199630, 200004, 200005}] : n \in 1..2}

FnInit ==
    /\ call \in [fn : {"mean", "stdev"}, arg : FloatSeqs, ret : {0}, done : {FALSE}]
                \cup [fn : {"evaluate"}, arg : RefSeries \X DutSeries, ret : {0},
                      done : {FALSE}]
    /\ caller = "function"
    /\ cfg = [hasSrc |-> FALSE, use5720 |-> FALSE, n |-> 1, r5156 |-> NoMap]
    /\ env = NoEnv
    /\ inst = [i \in Insts |-> "None"]
    /\ pc = "function"
    /\ mpc = 0
    /\ proc = 0
    /\ ip = 0
    /\ spc = "idle"
    /\ sxs = <<>>
    /\ xs = <<>>
    /\ dut = <<>>
    /\ iset = NaN
    /\ presults = <<>>
    /\ results = <<>>
    /\ exc = "none"
    /\ outcome = "running"
    /\ exported = FALSE
    /\ sd = 0
    /\ sdFailed = {}
    /\ shutdowns = 0
    /\ log = <<>>
    /\ hist = NoHist

\* mean(xs) returns
CallMean ==
    /\ call.fn = "mean"
    /\ ~call.done
    /\ call' = [call EXCEPT !.ret = float_mean(call.arg), !.done = TRUE]
    /\ UNCHANGED <<caller, cfg, env, inst, pc, mpc, proc, ip, spc, sxs, xs, dut, iset,
                   presults, results, exc, outcome, exported, sd, sdFailed,
                   shutdowns, log, hist>>

\* stdev(xs) returns
CallStdev ==
    /\ call.fn = "stdev"
    /\ ~call.done
    /\ call' = [call EXCEPT !.ret = float_stdev(call.arg), !.done = TRUE]
    /\ UNCHANGED <<caller, cfg, env, inst, pc, mpc, proc, ip, spc, sxs, xs, dut, iset,
                   presults, results, exc, outcome, exported, sd, sdFailed,
                   shutdowns, log, hist>>

\* the evaluation of the first row of verify_mainframe_measure_voltage on
\* series xs, dut: mean, shift_limits, within, PointResult(...)
CallEvaluate ==
    /\ call.fn = "evaluate"
    /\ ~call.done
    /\ call' = [call EXCEPT
                   !.ret = PointResult(2, NoMap, TABLE_18_4_MAINFRAME_MEAS_V[1],
                                       call.arg[1], call.arg[2], NaN),
                   !.done = TRUE]
    /\ UNCHANGED <<caller, cfg, env, inst, pc, mpc, proc, ip, spc, sxs, xs, dut, iset,
                   presults, results, exc, outcome, exported, sd, sdFailed,
                   shutdowns, log, hist>>

FnNext == CallMean \/ CallStdev \/ CallEvaluate

SpecFn == FnInit /\ [][FnNext]_vars

-----------------------------------------------------------------------------
(* Properties: the output state of the DUT *)

\* event e is an output on/off command procedure p sent to the DUT
IsOutputOf(p, e) == e.w = "proc" /\ e.p = p /\ e.d = "k" /\ e.c \in {"out_on", "out_off"}

\* the last output command procedure p sent is a successful output-disable
LastOutputOff(p) ==
    \E i \in DOMAIN log :
        /\ IsOutputOf(p, log[i])
        /\ log[i].c = "out_off"
        /\ log[i].ok
        /\ \A j \in (i + 1)..Len(log) : ~IsOutputOf(p, log[j])

-----------------------------------------------------------------------------
(* Properties: main()'s shutdown *)

Faults == {"BusError", "ValueError", "OSError"}

IsSd(e) == e.w = "shutdown"

\* safe_shutdown has attempted command c on instrument d before log position i
SentBefore(d, c, i) ==
    \E j \in 1..(i - 1) : IsSd(log[j]) /\ log[j].d = d /\ log[j].c = c

\* C2: when the run aborts with the DUT session opened, safe_shutdown sends
\* output-disable to the DUT, and standby to the auxiliary source when there
\* is one, before it closes any session.
C2_SafeStateBeforeClose ==
    (caller = "main" /\ hist.cause # "none") =>
        /\ \A i \in DOMAIN log :
              (IsSd(log[i]) /\ log[i].c = "close") =>
                  /\ inst["k"] # "None" => SentBefore("k", "out_off", i)
                  /\ inst["src"] # "None" => SentBefore("src", "stby", i)
        /\ (pc = "exit" /\ inst["k"] # "None") =>
              SentBefore("k", "out_off", Len(log) + 1)
        /\ (pc = "exit" /\ inst["src"] # "None") =>
              SentBefore("src", "stby", Len(log) + 1)

\* a bus fault in MF_MEAS_V with the 5720A present, and the sessions closed
C2_AbortedWithSourceClosed ==
    /\ caller = "main"
    /\ pc = "exit"
    /\ hist.cause = "BusError"
    /\ hist.atProc = 2
    /\ inst = [i \in Insts |-> "closed"]
    /\ SentBefore("src", "stby", Len(log))

\* C3: on every exit path of main() safe_shutdown is executed exactly once,
\* and once it has started no procedure step and no instrument command of the
\* run follows.
C3_ShutdownExactlyOnce ==
    caller = "main" =>
        /\ shutdowns = (IF pc \in {"shutdown", "exit"} THEN 1 ELSE 0)
        /\ \A i \in 1..(Len(log) - 1) : IsSd(log[i]) => IsSd(log[i + 1])
        /\ pc \in {"shutdown", "exit"} => (proc = 0 /\ spc = "idle")

\* main() has ended because the operator interrupted a procedure
C3_ExitAfterInterrupt ==
    /\ caller = "main"
    /\ pc = "exit"
    /\ hist.cause = "KeyboardInterrupt"
    /\ hist.atProc = 1
    /\ shutdowns = 1
    /\ \E i \in DOMAIN log : IsSd(log[i])

\* C4 as stated: after the shutdown main() re-raises the original condition,
\* for an error and for an operator interrupt alike.
C4_ReraisesErrorAndInterrupt ==
    (caller = "main" /\ pc = "exit" /\ hist.cause # "none") =>
        (outcome = "raised" /\ exc = hist.cause)

\* C4: after the shutdown main() re-raises an error; after an operator
\* interrupt it returns normally, nothing is re-raised.
C4_ReraisesErrorOnly ==
    (caller = "main" /\ pc = "exit") =>
        /\ shutdowns = 1
        /\ hist.cause \notin {"none", "KeyboardInterrupt"} =>
              (outcome = "raised" /\ exc = hist.cause)
        /\ hist.cause \in {"none", "KeyboardInterrupt"} =>
              (outcome = "returned" /\ exc = "none")

\* main() has returned after the operator interrupted the reference sampling
C4_ReturnedAfterInterrupt ==
    /\ caller = "main"
    /\ pc = "exit"
    /\ hist.cause = "KeyboardInterrupt"
    /\ hist.atStmt = "sample_ref"
    /\ outcome = "returned"

\* how often safe_shutdown has attempted command c on instrument d
Attempts(d, c) ==
    Cardinality({i \in DOMAIN log : IsSd(log[i]) /\ log[i].d = d /\ log[i].c = c})

\* C5: safe_shutdown is best-effort: whichever of its instrument calls fail,
\* every call on an instrument that exists is still attempted once, and
\* safe_shutdown returns without raising anything of its own.
C5_ShutdownBestEffort ==
    (caller = "main" /\ pc \in {"shutdown", "exit"}) =>
        /\ \A s \in DOMAIN SdPlan :
              Attempts(SdPlan[s][1], SdPlan[s][2]) =
                  (IF s < sd /\ inst[SdPlan[s][1]] # "None" THEN 1 ELSE 0)
        /\ sdFailed \subseteq 1..(sd - 1)
        /\ exc \in {"none", hist.cause}
        /\ pc = "exit" => sd = Len(SdPlan) + 1

\* safe_shutdown has returned although every one of its five calls failed
C5_AllCallsFailed ==
    /\ caller = "main"
    /\ pc = "exit"
    /\ sdFailed = DOMAIN SdPlan
    /\ \A s \in DOMAIN SdPlan : Attempts(SdPlan[s][1], SdPlan[s][2]) = 1

-----------------------------------------------------------------------------
(* Properties: faults inside a procedure, and the run as a whole *)

\* the instrument call logged at position i was made by a procedure and failed
FailedInProc(i) == log[i].w = "proc" /\ ~log[i].ok

\* the fault at position i left the procedure at once: it is the cause of the
\* abort, raised at the row of the call with only the earlier rows recorded
\* (outside the row loop: none or all of them),
\* the procedure did not return, and only safe_shutdown acted afterwards
Propagated(i) ==
    /\ hist.cause \in Faults
    /\ hist.atProc = log[i].p
    /\ hist.atRow = log[i].r
    /\ IF log[i].r = 0
       THEN hist.atResults \in {0, NRows}
       ELSE hist.atResults = log[i].r - 1
    /\ pc \notin {"proc", "main"}
    /\ \A k \in DOMAIN hist.done : hist.done[k] # log[i].p
    /\ \A j \in (i + 1)..Len(log) : IsSd(log[j])
    /\ pc = "exit" => (outcome = "raised" /\ exc = hist.cause)

\* the fault at position i was caught by the procedure, which went on with
\* the fallback setpoint of the row: I_nom (PA_OUT_I_LOW) or I_calc = V / R
\* (PA_MEAS_I_LOW)
Defaulted(i) ==
    LET p == log[i].p
        r == log[i].r
    IN  /\ ~(hist.cause \in Faults /\ hist.atProc = p /\ hist.atRow = r
                /\ hist.atStmt = "query_iset")
        /\ (proc = p /\ Len(presults) >= r) =>
              presults[r].actual_set =
                  (IF p = 5 THEN presults[r].set_value
                   ELSE presults[r].dmm_mean \div presults[r].r_act_ohm)

\* C6 as stated: a bus fault of any instrument call a procedure makes, the
\* source-setpoint query included, propagates out of the procedure; no
\* further row or procedure runs and the faulting row gets no PointResult.
C6_EveryFaultPropagates ==
    \A i \in DOMAIN log : FailedInProc(i) => Propagated(i)

\* C6: a fault of a configuration command or of a reading propagates out of
\* the procedure, unretried, with no further row or procedure and no
\* PointResult for the faulting row; a fault of the source-setpoint query is
\* caught, and the row is evaluated with the fallback setpoint.
C6_FaultPropagatesUnlessQuery ==
    \A i \in DOMAIN log :
        FailedInProc(i) =>
            IF log[i].c = "query_iset" THEN Defaulted(i) ELSE Propagated(i)

\* PA_MEAS_I_LOW, called directly, has recorded the row whose setpoint query
\* failed
C6_QueryFaultRowRecorded ==
    /\ caller = "direct"
    /\ proc = 6
    /\ \E i \in DOMAIN log :
          /\ FailedInProc(i)
          /\ log[i].c = "query_iset"
          /\ Len(presults) >= log[i].r

\* C7 as stated: when no instrument call fails and the operator does not
\* interrupt, main() runs the six procedures in order and ends with the
\* results exported.
C7_CompletesAllSix ==
    (/\ caller = "main"
     /\ pc = "exit"
     /\ hist.cause \notin (Faults \cup {"KeyboardInterrupt"})
     /\ \A i \in DOMAIN log : log[i].ok) =>
        /\ hist.done = <<1, 2, 3, 4, 5, 6>>
        /\ exported
        /\ outcome = "returned"

-----------------------------------------------------------------------------
(* Properties: _sample_readings *)

Count(s, x) == Cardinality({i \in DOMAIN s : s[i] = x})

\* C8: a call of _sample_readings that returns has invoked read_fn exactly
\* n times and returns the values in the order they were read; when an
\* invocation fails, the fault leaves the call at once: nothing is read after
\* it and no series is returned.
C8_ReadsCountInOrder ==
    /\ hist.sstate = "returned" =>
          /\ Count(hist.ops, "r") = cfg.n
          /\ Count(hist.ops, "x") = 0
          /\ hist.sret = hist.acq
          /\ Len(hist.sret) = cfg.n
    /\ hist.sstate = "raised" =>
          /\ hist.ops[Len(hist.ops)] = "x"
          /\ Count(hist.ops, "x") = 1
          /\ Count(hist.ops, "r") < cfg.n
          /\ hist.sret = <<>>
          /\ hist.cause \in Faults
          /\ pc # "proc"
          /\ xs = <<>> /\ dut = <<>>

\* a series of two different readings has been returned
C8_TwoReadingsReturned ==
    /\ hist.sstate = "returned"
    /\ Len(hist.sret) = 2
    /\ hist.sret[1] # hist.sret[2]
    /\ xs = hist.sret

\* C9 as stated: the delay is waited only between two invocations, n - 1
\* times in all, not after the last one.
C9_WaitsBetweenOnly ==
    hist.sstate = "returned" =>
        /\ Count(hist.ops, "w") = cfg.n - 1
        /\ hist.ops[Len(hist.ops)] = "r"

\* C9: the delay is waited after every invocation, the last one included,
\* n times in all, and never before the first.
C9_WaitsAfterEveryRead ==
    /\ hist.sstate \in {"in", "returned", "interrupted"} =>
          \A i \in DOMAIN hist.ops : hist.ops[i] = (IF i % 2 = 1 THEN "r" ELSE "w")
    /\ hist.sstate = "returned" => Len(hist.ops) = 2 * cfg.n

\* a call with n = 2 has returned after read, wait, read, wait
C9_ReturnedAfterLastWait ==
    /\ hist.sstate = "returned"
    /\ cfg.n = 2
    /\ hist.ops = <<"r", "w", "r", "w">>

-----------------------------------------------------------------------------
(* Properties: shift_limits *)

\* the point results computed so far, of main and of the running procedure
AllResults == results \o presults

\* the table row a point result was computed for
RowOfResult(r) ==
    LET p == CHOOSE q \in Procs : TestId(q) = r.test
        t == TableOf(p)
    IN  t[CHOOSE i \in DOMAIN t : t[i].range_name = r.range_name]

\* arguments shift_limits is tried on besides those of the runs: around the
\* 20 V row of table 18-3, around zero, negative, and low above high
ShiftGrid == {0 - 7, 0, 5, 19993600, 20000000, 20001000, 20006400}

\* on the grid: the result is (actual - (nominal - low), actual + (high -
\* nominal)), the span is kept, and actual = nominal gives (low, high) back
ShiftOnGrid ==
    \A nominal \in ShiftGrid, low \in ShiftGrid, high \in ShiftGrid,
       actual \in ShiftGrid :
        LET lh == shift_limits(nominal, low, high, actual)
        IN  /\ lh = <<actual - (nominal - low), actual + (high - nominal)>>
            /\ lh[2] - lh[1] = high - low
            /\ shift_limits(nominal, low, high, nominal) = <<low, high>>

\* shift(20.0, 19.9936, 20.0064, 20.0010) = (19.9946, 20.0074), in microvolts
ShiftExample ==
    shift_limits(20000000, 19993600, 20006400, 20001000) = <<19994600, 20007400>>

-----------------------------------------------------------------------------
(* Properties: the verdict of a row *)

\* C11: in every PointResult a procedure produces, whatever the instruments
\* read, the recorded shifted limits satisfy low <= high.
C11_LowBelowHigh ==
    \A i \in DOMAIN AllResults :
        /\ AllResults[i].low # NaN
        /\ AllResults[i].high # NaN
        /\ AllResults[i].low <= AllResults[i].high

\* MF_OUT_V has recorded a row whose limits were shifted with the reading
C11_ShiftedLimitsRecorded ==
    \E i \in DOMAIN AllResults :
        /\ AllResults[i].test = "MF_OUT_V"
        /\ AllResults[i].actual_set > AllResults[i].set_value
        /\ AllResults[i].low < AllResults[i].high

\* the value a point result was judged on, as recorded in it: the reference
\* mean (I_calc for PA_OUT_I_LOW) in the output tests, the DUT mean in the
\* measurement tests
ComparedOf(r) ==
    IF r.test \in {"MF_OUT_V", "MF_OUT_I", "PA_OUT_I_LOW"} THEN r.dmm_mean ELSE r.dut_mean

\* values within is tried on besides those of the runs
WithinGrid == {0 - 7, 0, 5, 6, 199626, 200000, 200374}

\* on the grid, within(x, lo, hi) is lo <= x <= hi, both ends included
WithinOnGrid ==
    \A x \in WithinGrid, lo \in WithinGrid, hi \in WithinGrid :
        /\ within(x, lo, hi) <=> (lo <= x /\ x <= hi)
        /\ lo <= hi => (within(lo, lo, hi) /\ within(hi, lo, hi))

\* C12: within(x, lo, hi) is true iff lo <= x <= hi, both ends included; in
\* every PointResult pass_fail is PASS iff the compared value lies in the
\* recorded [low, high], and FAIL otherwise.
C12_PassIffWithin ==
    /\ WithinOnGrid
    /\ \A i \in DOMAIN AllResults :
          LET r == AllResults[i]
          IN  /\ r.pass_fail \in {"PASS", "FAIL"}
              /\ r.pass_fail = "PASS" <=>
                    (r.low <= ComparedOf(r) /\ ComparedOf(r) <= r.high)

\* MF_MEAS_V has passed a row whose DUT mean is exactly the upper limit
C12_PassOnTheLimit ==
    \E i \in DOMAIN AllResults :
        /\ AllResults[i].test = "MF_MEAS_V"
        /\ AllResults[i].dut_mean = AllResults[i].high
        /\ AllResults[i].low < AllResults[i].high
        /\ AllResults[i].pass_fail = "PASS"

\* C13: MF_OUT_V and MF_OUT_I judge the reference mean, MF_MEAS_V and
\* MF_MEAS_I judge the DUT mean; in both the limits are the row's limits
\* shifted to the reference mean, which is recorded as actual_set.
C13_ComparedByTestType ==
    \A i \in DOMAIN AllResults :
        LET r   == AllResults[i]
            row == RowOfResult(r)
            lh  == shift_limits(row.set_value, row.low, row.high, r.dmm_mean)
        IN  r.test \in {"MF_OUT_V", "MF_OUT_I", "MF_MEAS_V", "MF_MEAS_I"} =>
                /\ r.actual_set = r.dmm_mean
                /\ <<r.low, r.high>> = lh
                /\ IF r.test \in {"MF_OUT_V", "MF_OUT_I"}
                   THEN /\ r.dut_mean = NaN
                        /\ r.pass_fail = "PASS" <=> within(r.dmm_mean, r.low, r.high)
                   ELSE r.pass_fail = "PASS" <=> within(r.dut_mean, r.low, r.high)

\* MF_MEAS_V has failed a row on the DUT mean although the reference mean,
\* off the nominal value, lies within the limits
C13_FailedOnDutMean ==
    \E i \in DOMAIN AllResults :
        /\ AllResults[i].test = "MF_MEAS_V"
        /\ AllResults[i].pass_fail = "FAIL"
        /\ AllResults[i].dmm_mean # AllResults[i].set_value
        /\ within(AllResults[i].dmm_mean, AllResults[i].low, AllResults[i].high)
        /\ ~within(AllResults[i].dut_mean, AllResults[i].low, AllResults[i].high)

-----------------------------------------------------------------------------
(* Properties: mean and stdev *)

AllEqual(s) == \A i \in DOMAIN s : s[i] = s[1]

\* C14 as stated: stdev of fewer than two samples is exactly 0; of two or
\* more samples it is non-negative, and 0 iff all samples are equal; the mean
\* of no samples is NaN.
C14_StdevZeroIffEqual ==
    /\ (call.fn = "stdev" /\ call.done) =>
          IF Len(call.arg) < 2 THEN call.ret = 0
          ELSE /\ call.ret # NaN
               /\ call.ret >= 0
               /\ call.ret = 0 <=> AllEqual(call.arg)
    /\ (call.fn = "mean" /\ call.done /\ call.arg = <<>>) => call.ret = NaN

\* C14: stdev of fewer than two samples is exactly 0; of two or more samples
\* it is non-negative, it is 0 only if all samples are equal, and for equal
\* samples it is 0 exactly when the computed mean sum(xs) / len(xs) is the
\* sample itself, as it is for two samples; the mean of no samples is NaN.
C14_StdevZeroIffMeanExact ==
    /\ (call.fn = "stdev" /\ call.done) =>
          IF Len(call.arg) < 2 THEN call.ret = 0
          ELSE /\ call.ret # NaN
               /\ call.ret >= 0
               /\ call.ret = 0 => AllEqual(call.arg)
               /\ AllEqual(call.arg) =>
                     (call.ret = 0 <=> float_mean(call.arg) = call.arg[1])
               /\ (AllEqual(call.arg) /\ Len(call.arg) = 2) => call.ret = 0
    /\ (call.fn = "mean" /\ call.done /\ call.arg = <<>>) => call.ret = NaN
    /\ (call.fn = "mean" /\ call.done /\ call.arg # <<>>) => call.ret # NaN

\* stdev has returned a positive value for three equal samples
C14_EqualSamplesPositive ==
    /\ call.fn = "stdev"
    /\ call.done
    /\ Len(call.arg) = 3
    /\ AllEqual(call.arg)
    /\ call.ret > 0

-----------------------------------------------------------------------------
(* Properties: the low-current procedures *)

IsLow(r) == r.test \in {"PA_OUT_I_LOW", "PA_MEAS_I_LOW"}

\* the resistance of the resistor-actuals map for a key and a nominal value
FromMap(key, rnom) == IF key \in DOMAIN cfg.r5156 THEN cfg.r5156[key] ELSE rnom

\* every low-current result records the key, the nominal and the map's value
ResistanceRecorded ==
    \A i \in DOMAIN AllResults :
        LET r == AllResults[i]  row == RowOfResult(r)
        IN  IsLow(r) =>
               /\ r.r_key \in {"100M", "1G", "10G", "100G"}
               /\ r.r_key = r_key_from_nominal(row.r_nom)
               /\ r.r_nom_ohm = row.r_nom
               /\ r.r_act_ohm = FromMap(r.r_key, row.r_nom)

\* the current of a row is the mean voltage divided by the map's value: the
\* I_calc recorded by the output procedure, the I_calc the measurement
\* procedure commands and the DUT reports back (or that replaces the report)
ResistanceDivides ==
    LET R == FromMap(r_key_from_nominal(TheRow.r_nom), TheRow.r_nom)
        I == mean(xs) \div R
    IN  /\ (InProc /\ proc = 5 /\ Len(presults') = Len(presults) + 1) =>
              presults'[Len(presults')].dmm_mean = I
        /\ (InProc /\ proc = 6 /\ Stmt = "query_iset" /\ ip' = ip + 1) =>
              iset' \in {I, SetpointAnswer(I, env)}

\* C15: in both low-current procedures the resistance dividing the voltage,
\* recorded as r_act_ohm, is the resistor-actuals map's value at the key of the
\* row's nominal resistance, or the nominal when the map is absent or lacks
\* the key; r_key and r_nom_ohm record the key and the nominal.
C15_ResistanceFromMap == []ResistanceRecorded /\ [][ResistanceDivides]_vars

\* a low-current procedure has returned rows computed with a characterised
\* resistance that differs from the nominal one
C15_CharacterisedRowsReturned ==
    /\ outcome = "returned"
    /\ Len(presults) = NRows
    /\ \A i \in DOMAIN presults :
          /\ IsLow(presults[i])
          /\ presults[i].r_key \in DOMAIN cfg.r5156
          /\ presults[i].r_act_ohm # presults[i].r_nom_ohm

\* every low-current result carries the limits of its row moved by the
\* distance of actual_set from the nominal current
LimitsAroundActualSet ==
    \A i \in DOMAIN AllResults :
        LET r == AllResults[i]  row == RowOfResult(r)
        IN  IsLow(r) =>
               /\ r.low = row.low + (r.actual_set - row.set_value)
               /\ r.high = row.high + (r.actual_set - row.set_value)

\* the row's I_set is recorded as actual_set
ActualSetIsISet ==
    (InProc /\ LowCurrent(proc) /\ Len(presults') = Len(presults) + 1) =>
        presults'[Len(presults')].actual_set = iset

\* the current the row has commanded the DUT to source
ICommanded == IF proc = 5 THEN TheRow.set_value
              ELSE mean(xs) \div FromMap(r_key_from_nominal(TheRow.r_nom), TheRow.r_nom)

\* I_set is what the DUT answers to the setpoint query
ISetReadBack ==
    (InProc /\ Stmt = "query_iset" /\ ip' = ip + 1) =>
        /\ log'[Len(log')].ok
        /\ iset' = SetpointAnswer(ICommanded, env)

\* I_set is what the DUT answers to the setpoint query, or the commanded
\* current when the query raises
ISetReadBackOrCommanded ==
    (InProc /\ Stmt = "query_iset" /\ ip' = ip + 1) =>
        iset' = IF log'[Len(log')].ok THEN SetpointAnswer(ICommanded, env)
                ELSE ICommanded

-----------------------------------------------------------------------------
(* Properties: the order of the statements of a row *)

\* the configuration commands of a row
RowConfig == {"dmm_dcv_row", "src_out", "sense_volt", "source_v", "source_i",
              "source_i_calc"}

\* the state of the row an event belongs to: 1 Configuring, 2 Settling,
\* 3 Sampling(reference), 4 Sampling(DUT); 0 for the other events
Phase(e) ==
    CASE e.c \in RowConfig -> 1
      [] e.c = "settle" -> 2
      [] e.c = "read" /\ e.d = "dmm" -> 3
      [] e.c = "read" /\ e.d = "k" -> 4
      [] OTHER -> 0

\* events i and j belong to the same row of the same procedure
SameRow(i, j) == log[i].r > 0 /\ log[i].p = log[j].p /\ log[i].r = log[j].r

\* the procedure samples the reference before it commands the current
MeasuresFirst(p) == p = 6

\* the procedure takes its voltage from the auxiliary source
ExternalSource(p) == p = 2 /\ cfg.use5720 /\ cfg.hasSrc

\* the place of an event in the order of its row
Rank(e) ==
    CASE MeasuresFirst(e.p) ->
            (CASE Phase(e) = 3 -> 1 [] Phase(e) = 1 -> 2 [] Phase(e) = 2 -> 3
               [] Phase(e) = 4 -> 4 [] OTHER -> 0)
      [] ExternalSource(e.p) ->
            (CASE e.c = "src_out" -> 1 [] Phase(e) = 2 -> 2 [] Phase(e) = 3 -> 3
               [] e.c = "sense_volt" -> 4 [] Phase(e) = 4 -> 5 [] OTHER -> 0)
      [] OTHER -> Phase(e)

\* The log only grows: an order of its events holds in every state when, in
\* every state, it holds between each event and the latest one.

\* C17 as stated: in every procedure every row passes through Configuring,
\* Settling, Sampling(reference), Sampling(DUT) in that order: every
\* configuration command of the row is issued before its settle delay, and
\* the settle delay is over before the first sample of the row is taken.
C17_ConfigureSettleSample ==
    \A i \in DOMAIN log :
        LET j == Len(log)
        IN  (i < j /\ SameRow(i, j) /\ Phase(log[i]) # 0 /\ Phase(log[j]) # 0) =>
                Phase(log[i]) <= Phase(log[j])

\* C17: every row passes through Configuring, Settling, Sampling(reference),
\* Sampling(DUT) in that order, except in two procedures: the low-current
\* measurement samples the reference first, then commands the current, settles
\* and samples the DUT; measure-voltage on the auxiliary source sets the
\* source, settles, samples the reference, then selects the DUT's sense
\* function and samples the DUT.  In every procedure the DUT is sampled
\* after the settle delay and after the reference.
C17_ConfigureSettleSampleBut ==
    \A i \in DOMAIN log :
        LET j == Len(log)
        IN  (i < j /\ SameRow(i, j) /\ Phase(log[i]) # 0 /\ Phase(log[j]) # 0) =>
                /\ Rank(log[i]) <= Rank(log[j])
                /\ Phase(log[i]) = 4 => Phase(log[j]) = 4

\* measure-voltage on the auxiliary source has returned all its rows, having
\* selected the sense function of the first row after its settle delay
C17_SenseSelectedAfterSettle ==
    /\ ExternalSource(proc)
    /\ Len(presults) = NRows
    /\ Stmt = "return"
    /\ \E i, j \in DOMAIN log :
          /\ i < j
          /\ SameRow(i, j)
          /\ log[i].r = 1
          /\ log[i].c = "settle"
          /\ log[j].c = "sense_volt"

-----------------------------------------------------------------------------
(* Properties: the auxiliary source in verify_mainframe_measure_voltage *)

\* the events of the log at which procedure p talked to the auxiliary source
ToAuxiliary(p) ==
    {i \in DOMAIN log : log[i].w = "proc" /\ log[i].p = p /\ log[i].d = "src"}

\* the events of the rows of procedure p
RowEvents(p) == {i \in DOMAIN log : log[i].w = "proc" /\ log[i].p = p /\ log[i].r > 0}

\* procedure p has reached its "return results"
Returned(p) ==
    \/ \E i \in DOMAIN hist.done : hist.done[i] = p
    \/ InProc /\ proc = p /\ Stmt = "return"

\* C18: verify_mainframe_measure_voltage with the auxiliary source enabled and
\* present puts it in operate exactly once before the first row, sets its
\* output once per row, and returns it to standby exactly once after the last
\* row and before it returns; with the option disabled or the source absent it
\* sends the auxiliary source nothing.
C18_OperateRowsStandby ==
    LET A   == ToAuxiliary(2)
        cmd(c) == {i \in A : log[i].c = c}
    IN  /\ ~ExternalSource(2) => A = {}
        /\ (ExternalSource(2) /\ Returned(2)) =>
              /\ \A i \in A : log[i].ok /\ log[i].c \in {"src_oper", "src_out", "src_stby"}
              /\ Cardinality(cmd("src_oper")) = 1
              /\ Cardinality(cmd("src_stby")) = 1
              /\ \A r \in 1..NRows :
                    Cardinality({i \in cmd("src_out") : log[i].r = r}) = 1
              /\ Cardinality(cmd("src_out")) = NRows
              /\ \A i \in cmd("src_oper") : \A j \in RowEvents(2) : i < j
              /\ \A i \in cmd("src_stby") : \A j \in RowEvents(2) : j < i

\* main() has run verify_mainframe_measure_voltage on the auxiliary source to
\* its return
C18_AuxiliaryRunReturned ==
    /\ caller = "main"
    /\ ExternalSource(2)
    /\ Returned(2)
    /\ Cardinality(ToAuxiliary(2)) = NRows + 2

-----------------------------------------------------------------------------
(* Properties: the result sequences *)

\* result r is the record of row i of procedure p
RecordOf(r, p, i) ==
    /\ r.test = TestId(p)
    /\ r.range_name = TableOf(p)[i].range_name
    /\ r.set_value = TableOf(p)[i].set_value

\* a procedure at its "return results" has one record per row, in row order
OnePerRow ==
    (InProc /\ Stmt = "return") =>
        /\ Len(presults) = NRows
        /\ \A i \in 1..NRows : RecordOf(presults[i], proc, i)

\* while the try body runs, main's results are the records of the procedures
\* that returned, in the order main calls them
Aggregated ==
    (caller = "main" /\ (InMain \/ InProc)) =>
        /\ \A k \in DOMAIN hist.done : hist.done[k] = k
        /\ Len(results) = NRows * Len(hist.done)
        /\ \A k \in DOMAIN hist.done : \A i \in 1..NRows :
              RecordOf(results[(k - 1) * NRows + i], hist.done[k], i)

\* while the try body runs, main's results change only by
\* "results += verify_...(...)", which appends the returned sequence as it is
Concatenates ==
    (results' # results /\ exc' = "none") =>
        /\ InProc /\ Stmt = "return"
        /\ results' = results \o presults

\* C19: a procedure that completes returns exactly one PointResult per row of
\* its table, in row order, each with the row's range_name and set_value and
\* the procedure's test id; main's collection is the concatenation of the
\* procedures' sequences in the order they were run, nothing dropped,
\* duplicated or reordered.
C19_OnePerRowConcatenated == [](OnePerRow /\ Aggregated) /\ [][Concatenates]_vars

\* main() has collected the records of its first two procedures
C19_TwoSequencesCollected ==
    /\ caller = "main"
    /\ hist.done = <<1, 2>>
    /\ Len(results) = 2 * NRows
    /\ results[NRows].test = "MF_OUT_V"
    /\ results[NRows + 1].test = "MF_MEAS_V"

-----------------------------------------------------------------------------
(* Properties: the export *)

\* the events of the log at which main() wrote, or tried to write, a file
ExportEvents == {i \in DOMAIN log : log[i].c \in {"export", "export_standards"}}

\* C20: main() writes the export only when all six procedures have returned;
\* after a fault or an interrupt in a procedure no export is written and the
\* records of the rows and procedures before it are not kept.
C20_ExportOnlyWhenComplete ==
    caller = "main" =>
        /\ (exported \/ ExportEvents # {}) => hist.done = <<1, 2, 3, 4, 5, 6>>
        /\ (hist.cause # "none" /\ hist.atProc # 0) =>
              /\ ~exported
              /\ ExportEvents = {}
              /\ results = <<>>
              /\ presults = <<>>

\* main() has ended after a fault in its second procedure, which had recorded
\* a row, the first procedure having returned all of its rows
C20_AbortedWithRecords ==
    /\ caller = "main"
    /\ pc = "exit"
    /\ hist.cause \in Faults
    /\ hist.atProc = 2
    /\ hist.atResults >= 1
    /\ hist.atMainResults = NRows
    /\ ~exported

-----------------------------------------------------------------------------
(* Properties: the order of a row of the low-current procedures *)

\* the place of an event in a row of verify_remote_preamp_low_current_measurement
StepOfRow(e) ==
    CASE e.c = "row_prompt" -> 1
      [] e.c = "read" /\ e.d = "dmm" -> 2
      [] e.c = "source_i_calc" -> 3
      [] e.c = "settle" -> 4
      [] e.c = "query_iset" -> 5
      [] e.c = "read" /\ e.d = "k" -> 6
      [] OTHER -> 0

\* C21: in every row of the low-current measurement procedure the cabling
\* prompt is acknowledged, then the reference voltage is sampled, then the DUT
\* is commanded to source I_calc, then comes the settle delay, then the
\* setpoint is read back (an answer or a caught error), then the DUT is
\* sampled; in both low-current procedures the prompt of a range is
\* acknowledged before any sample of it.
C21_PromptSampleCommandSettleRead ==
    LET j == Len(log) IN
    (j > 0 /\ log[j].w = "proc" /\ log[j].r > 0) =>
        /\ (log[j].p = 6 /\ StepOfRow(log[j]) # 0) =>
              /\ \A i \in 1..(j - 1) :
                    (SameRow(i, j) /\ StepOfRow(log[i]) # 0) =>
                        StepOfRow(log[i]) <= StepOfRow(log[j])
              /\ StepOfRow(log[j]) > 1 =>
                    \E i \in 1..(j - 1) :
                        /\ SameRow(i, j)
                        /\ log[i].ok \/ log[i].c = "query_iset"
                        /\ StepOfRow(log[i]) \in {StepOfRow(log[j]) - 1, StepOfRow(log[j])}
        /\ (log[j].p \in {5, 6} /\ log[j].c = "read") =>
              \E i \in 1..(j - 1) : SameRow(i, j) /\ log[i].c = "row_prompt"

\* the low-current measurement procedure has gone through every step of its
\* last row, with MaxSamples readings of each instrument
C21_LastRowSampled ==
    /\ InProc
    /\ proc = 6
    /\ Stmt = "return"
    /\ cfg.n = MaxSamples
    /\ Cardinality({i \in DOMAIN log : log[i].p = 6 /\ log[i].r = NRows
                                       /\ StepOfRow(log[i]) # 0}) = 4 + 2 * MaxSamples

-----------------------------------------------------------------------------
(* Properties: the configuration of the reference meter *)

\* the quantity the reference meter measures in the rows of procedure p, and
\* its expected magnitude in row r: the nominal voltage, or the voltage of the
\* nominal current across the nominal resistance
SampledFunction(p) == IF p \in {3, 4} THEN "DCI" ELSE "DCV"
ExpectedVolts(p, r) ==
    LET row == TableOf(p)[r]
    IN  IF LowCurrent(p) THEN (row.set_value * row.r_nom) \div 100 ELSE row.set_value

\* event i configured the reference meter within procedure p
ConfiguredIn(i, p) ==
    /\ log[i].w = "proc"
    /\ log[i].p = p
    /\ log[i].c \in DmmConfigs
    /\ log[i].ok

\* C22 as stated: whenever the reference meter is sampled for a row, it has
\* been configured earlier within the same procedure for the function of the
\* sampled quantity, with the smallest range that covers the row's expected
\* magnitude.
C22_ReferenceConfiguredForRow ==
    LET j == Len(log) IN
    (j > 0 /\ log[j].w = "proc" /\ log[j].c = "read" /\ log[j].d = "dmm") =>
        \E i \in 1..(j - 1) :
            /\ ConfiguredIn(i, log[j].p)
            /\ \A k \in (i + 1)..(j - 1) : ~ConfiguredIn(k, log[j].p)
            /\ DmmFunction(log[i].c) = SampledFunction(log[j].p)
            /\ DmmRange(log[i].c, log[i].p, log[i].r)
                  = map_dcv_range(ExpectedVolts(log[j].p, log[j].r))

-----------------------------------------------------------------------------
(* Properties: the DUT while the auxiliary source is in operate *)

\* the statements that configure the DUT's source: K6430.source_v, K6430.source_i
SourceCommands == {"source_v", "source_i", "source_i_calc"}

\* at event j the auxiliary source is in operate for procedure 2: it was put
\* in operate and has not been sent to standby since
InOperate(j) ==
    \E i \in 1..(j - 1) :
        /\ log[i].w = "proc" /\ log[i].p = 2 /\ log[i].c = "src_oper" /\ log[i].ok
        /\ \A k \in (i + 1)..(j - 1) : log[k].c # "src_stby"

\* C23: while the auxiliary source is in operate during
\* verify_mainframe_measure_voltage, no command that configures the DUT's
\* source is sent: the DUT is only told its sense function and read.
C23_DutOnlyMeasures ==
    LET j == Len(log) IN
    (j > 0 /\ log[j].w = "proc" /\ log[j].p = 2 /\ log[j].d = "k" /\ InOperate(j)) =>
        /\ log[j].c \notin SourceCommands
        /\ log[j].c \in {"sense_volt", "read"}

\* the DUT has been read in the last row and the auxiliary source is still in
\* operate
C23_LastRowReadInOperate ==
    /\ InProc
    /\ proc = 2
    /\ Stmt = "src_stby"
    /\ InOperate(Len(log) + 1)
    /\ \E i \in DOMAIN log : log[i].d = "k" /\ log[i].c = "read" /\ log[i].r = NRows

-----------------------------------------------------------------------------
(* Properties: the statistics and the optional fields of a PointResult *)

\* the step appends a PointResult: "results.append(PointResult(...))"
Appends == InProc /\ Len(presults') = Len(presults) + 1

\* the statistics of the record the step appends are those of the series of
\* the row
StatisticsOfSeries ==
    Appends =>
        LET r == presults'[Len(presults')]
        IN  /\ r.dmm_mean = mean(xs)
            /\ r.dmm_stdev = stdev(xs)
            /\ proc \in {2, 4, 6} =>
                  /\ r.dut_mean = mean(dut)
                  /\ r.dut_stdev = stdev(dut)

\* C24 as stated: in every PointResult of every procedure, dmm_mean and
\* dmm_stdev are the mean and the (N-1) standard deviation of the reference
\* series of the row, and dut_mean and dut_stdev those of the DUT series when
\* the procedure samples the DUT.
C24_StatisticsOfSeries == [][StatisticsOfSeries]_vars

\* C25: in every PointResult dut_mean and dut_stdev are NaN iff the procedure
\* does not sample the DUT (MF_OUT_V, MF_OUT_I, PA_OUT_I_LOW); r_key,
\* r_nom_ohm and r_act_ohm are set iff the result is of a low-current
\* procedure, and all three are unset in the mainframe results.
C25_NaNAndTraceability ==
    \A i \in DOMAIN AllResults :
        LET r == AllResults[i]
            unsampled == r.test \in {"MF_OUT_V", "MF_OUT_I", "PA_OUT_I_LOW"}
        IN  /\ r.dut_mean = NaN <=> unsampled
            /\ r.dut_stdev = NaN <=> unsampled
            /\ IF IsLow(r)
               THEN r.r_key # "None" /\ r.r_nom_ohm # None /\ r.r_act_ohm # None
               ELSE r.r_key = "None" /\ r.r_nom_ohm = None /\ r.r_act_ohm = None

\* main() holds a result without DUT statistics and one with them, both
\* without traceability fields
C25_MainframeResultsOfBothKinds ==
    /\ \E i \in DOMAIN AllResults :
          AllResults[i].test = "MF_OUT_V" /\ AllResults[i].dut_mean = NaN
    /\ \E i \in DOMAIN AllResults :
          /\ AllResults[i].test = "MF_MEAS_V"
          /\ AllResults[i].dut_mean # NaN
          /\ AllResults[i].r_key = "None"

-----------------------------------------------------------------------------
(* Properties: a response of the reference meter that does not parse *)

\* a response without a digit raises ValueError, and one with a digit yields
\* a token that starts with a digit or with a sign and a digit
NoTokenRaises ==
    \A s \in Responses :
        LET res == parse_first_float(s)
        IN  IF \A i \in DOMAIN s : ~IsDigit(s[i])
            THEN res.raises = "ValueError" /\ res.token = <<>>
            ELSE /\ res.raises = "none"
                 /\ res.token # <<>>
                 /\ \E i \in DOMAIN res.token : IsDigit(res.token[i])

\* C26: a response of the reference meter with no numeric token makes the
\* read raise instead of returning a number; the fault ends the procedure in
\* progress, with no PointResult for the row and no later rows, and reaches
\* the top level as a bus fault does.
C26_ParseFaultAborts ==
    /\ NoTokenRaises
    /\ \A i \in DOMAIN log :
          (FailedInProc(i) /\ log[i].d = "dmm" /\ log[i].c = "read"
           /\ hist.cause = "ValueError") =>
              /\ Propagated(i)
              /\ presults = <<>>
              /\ results = <<>>
              /\ \A k \in (i + 1)..Len(log) : log[k].w # "proc"

\* main() has ended, re-raising the ValueError of a reference reading of the
\* second row of its second procedure
C26_ParseFaultReachedTop ==
    /\ caller = "main"
    /\ pc = "exit"
    /\ outcome = "raised"
    /\ exc = "ValueError"
    /\ hist.atProc = 2
    /\ hist.atRow = 2
    /\ hist.atStmt = "sample_ref"
    /\ hist.atResults = 1

-----------------------------------------------------------------------------
(* Properties: the 200 mV row of table 18-4 on given series *)

\* the reference series 0.19964, 0.19962, 0.19963 V has been evaluated
ScenarioEvaluated ==
    /\ call.fn = "evaluate"
    /\ call.done
    /\ call.arg[1] = <<199640, 199620, 199630>>

\* C27 as stated: for the reference series [0.19964, 0.19962, 0.19963] and the
\* 0.200000 V row with limits [0.199626, 0.200374] the mean is 0.199637, the
\* shifted limits lie 0.000374 below and above the mean, and the verdict is
\* PASS.
C27_Mean199637Pass ==
    ScenarioEvaluated =>
        /\ call.ret.dmm_mean = 199637
        /\ call.ret.low = call.ret.dmm_mean - 374
        /\ call.ret.high = call.ret.dmm_mean + 374
        /\ call.ret.pass_fail = "PASS"

\* C27: for that series and row the mean is 0.199630, the shifted limits are
\* 0.199256 and 0.200004, 0.000374 below and above the mean, and the verdict
\* is PASS exactly when the mean of the DUT's readings lies within them.
C27_Mean199630PassIffDutWithin ==
    ScenarioEvaluated =>
        /\ call.ret.dmm_mean = 199630
        /\ call.ret.actual_set = 199630
        /\ call.ret.low = 199256
        /\ call.ret.high = 200004
        /\ call.ret.low = call.ret.dmm_mean - 374
        /\ call.ret.high = call.ret.dmm_mean + 374
        /\ call.ret.pass_fail = "PASS" <=>
              (199256 <= call.ret.dut_mean /\ call.ret.dut_mean <= 200004)

\* the series has been evaluated with a DUT reading on the lower limit: PASS
C27_ScenarioPassOnLimit ==
    /\ ScenarioEvaluated
    /\ call.arg[2] = <<199256>>
    /\ call.ret.pass_fail = "PASS"

-----------------------------------------------------------------------------
(* Properties: the verdict of the output-accuracy procedures *)

\* the rows of tables 18-3 and 18-5
OutputRows ==
    {TABLE_18_3_MAINFRAME_OUT_V[i] : i \in DOMAIN TABLE_18_3_MAINFRAME_OUT_V}
    \cup {TABLE_18_5_MAINFRAME_OUT_I[i] : i \in DOMAIN TABLE_18_5_MAINFRAME_OUT_I}

\* reference means the verdict is tried on besides those of the runs:
\* negative, zero, far below and far above every row
AnyMeans == {0 - 1000000000, 0 - 7, 0, 5, 199359, 200641, 1000000000}

\* every row has low <= set_value <= high, and whatever the reference mean
\* is, it lies within the limits shifted to it
AlwaysWithinShifted ==
    \A row \in OutputRows :
        /\ row.low <= row.set_value /\ row.set_value <= row.high
        /\ \A actual \in AnyMeans :
              LET lh == shift_limits(row.set_value, row.low, row.high, actual)
              IN  within(actual, lh[1], lh[2])

\* C28: in MF_OUT_V and MF_OUT_I the compared value is the reference mean the
\* limits are shifted to, so every PointResult of these procedures is PASS
\* whatever the readings are; FAIL is unreachable.
C28_OutputAlwaysPass ==
    /\ AlwaysWithinShifted
    /\ \A i \in DOMAIN AllResults :
          AllResults[i].test \in {"MF_OUT_V", "MF_OUT_I"} =>
              /\ AllResults[i].pass_fail = "PASS"
              /\ AllResults[i].actual_set = AllResults[i].dmm_mean

\* MF_OUT_V has passed a row whose reference mean is above the row's upper
\* limit
C28_PassedOutsideTableLimits ==
    \E i \in DOMAIN AllResults :
        /\ AllResults[i].test = "MF_OUT_V"
        /\ AllResults[i].dmm_mean > RowOfResult(AllResults[i]).high
        /\ AllResults[i].pass_fail = "PASS"

-----------------------------------------------------------------------------
(* Properties: shutdown after a failure while the instruments are opened *)

\* the instruments main() had opened when the statement at which it failed ran
OpenedBefore(stmt) ==
    CASE stmt = "open_k" -> {}
      [] stmt = "open_dmm" -> {"k"}
      [] stmt = "open_src" -> {"k", "dmm"}

\* the place of an instrument in the closing order of safe_shutdown
CloseRank(d) == CASE d = "dmm" -> 1 [] d = "src" -> 2 [] d = "k" -> 3

\* the events at which safe_shutdown closed, or tried to close, instrument d
Closes(d) == {i \in DOMAIN log : IsSd(log[i]) /\ log[i].d = d /\ log[i].c = "close"}

\* C29: when main() fails while it opens the instruments (DUT, reference
\* meter, auxiliary source), safe_shutdown attempts close exactly once on each
\* instrument that was opened, in the order reference meter, auxiliary
\* source, DUT, sends nothing to an instrument that was not opened, and
\* attempts every close after the output-disable and standby attempts.
C29_ClosesWhatWasOpened ==
    (caller = "main" /\ hist.cause # "none"
     /\ hist.atStmt \in {"open_k", "open_dmm", "open_src"}) =>
        LET opened == OpenedBefore(hist.atStmt)
        IN  /\ \A d \in Insts : inst[d] # "None" <=> d \in opened
            /\ \A i \in DOMAIN log : IsSd(log[i]) => log[i].d \in opened
            /\ \A d \in Insts : Cardinality(Closes(d)) <= 1
            /\ pc = "exit" =>
                  /\ \A d \in opened : Cardinality(Closes(d)) = 1
                  /\ "k" \in opened => \E i \in DOMAIN log :
                        IsSd(log[i]) /\ log[i].d = "k" /\ log[i].c = "out_off"
            /\ \A i, j \in DOMAIN log :
                  (IsSd(log[i]) /\ IsSd(log[j]) /\ i < j) =>
                      /\ log[i].c = "close" => log[j].c = "close"
                      /\ (log[i].c = "close" /\ log[j].c = "close") =>
                            CloseRank(log[i].d) < CloseRank(log[j].d)

\* main() has ended after the auxiliary source could not be opened: the DUT's
\* output was disabled, then the reference meter and the DUT were closed
C29_SourceFailedToOpen ==
    /\ caller = "main"
    /\ pc = "exit"
    /\ hist.cause = "BusError"
    /\ hist.atStmt = "open_src"
    /\ Cardinality(Closes("dmm")) = 1
    /\ Cardinality(Closes("k")) = 1
    /\ Closes("src") = {}

-----------------------------------------------------------------------------
(* Properties: the connection prompt of a procedure *)

\* event e is something procedure p did
EventOf(p, e) == e.w = "proc" /\ e.p = p

\* C30: in every procedure the DUT's output is enabled, and every setpoint
\* command and every sample is issued, only after the operator has
\* acknowledged the procedure's connection prompt; an interrupt at the prompt
\* leaves the DUT's output as the previous procedure left it.
C30_NothingBeforePrompt ==
    /\ LET j == Len(log) IN
       (j > 0 /\ log[j].w = "proc" /\ log[j].c # "prompt") =>
           \E i \in 1..(j - 1) :
               EventOf(log[j].p, log[i]) /\ log[i].c = "prompt" /\ log[i].ok
    /\ (hist.cause = "KeyboardInterrupt" /\ hist.atStmt = "prompt") =>
           /\ \A i \in DOMAIN log : ~EventOf(hist.atProc, log[i])
           /\ \A q \in Procs :
                 (\E i \in DOMAIN log : IsOutputOf(q, log[i])) =>
                     (q < hist.atProc /\ LastOutputOff(q))

\* main() was interrupted at the prompt of its second procedure, after the
\* first had disabled the output
C30_InterruptedAtSecondPrompt ==
    /\ caller = "main"
    /\ hist.cause = "KeyboardInterrupt"
    /\ hist.atProc = 2
    /\ hist.atStmt = "prompt"
    /\ LastOutputOff(1)
    /\ pc = "exit"

====
